---- MODULE Spec2Model ----
(***************************************************************************)
(* Irrigation-run lifecycle of the ess9ini backend.                        *)
(*                                                                         *)
(* The persisted IrrigationEvent collection, the per-farm zone lists and   *)
(* the request handlers / model methods that read and write them.  A       *)
(* handler is split where the JavaScript awaits between a read of the      *)
(* store and the write that depends on it, so two handlers interleave      *)
(* exactly where two Node.js requests can.                                 *)
(*                                                                         *)
(* Mongoose behaviour the handlers rely on is modelled as it works:        *)
(*   - Model.create / doc.save run schema validation first, then the       *)
(*     pre('save') hooks in registration order, then the write;            *)
(*   - save() of a loaded document writes only the paths whose value was   *)
(*     changed with respect to the loaded copy;                            *)
(*   - paths that are not in the schema are dropped (strict mode).         *)
(* Requests are those of an authorised user on an existing farm and an     *)
(* existing event id.                                                      *)
(***************************************************************************)
EXTENDS Integers, Sequences, FiniteSets, Bags, TLC

\* ---------------------------------------------------------------- bounds
MaxEvents   == 2      \* irrigation events ever created
MaxClock    == 2      \* values Date.now() takes
MaxInFlight == 2      \* handlers in flight at once
MaxAlerts   == 2      \* alerts pushed on one event
MaxClicks   == 4      \* acknowledge clicks on the dashboard
MaxReadings == 2      \* sensor readings ever submitted for statistics
MaxSamples  == 2      \* readings handed to one recommendation
MaxCalls    == 2      \* calls of the notification service
MaxZones    == 2      \* zones a farm has at once

\* ------------------------------------------------------ program constants
DefaultFlowRate == 5      \* settings.flowRate default, liters per minute
MaxEfficiency   == 100    \* results.efficiency max validator

\* ------------------------------------------------------- request inputs
Farms         == {1, 2}
RaceFarms     == {1}              \* the farm the racing handlers contend for
Durations     == {2}              \* minutes asked for
PlannedVals   == {-1, 0, 10}      \* waterAmount.planned of a payload, -1 absent
WaterUsedVals == {0, 10, 30}      \* complete(waterUsed)
AlertTypes    == {"system_error", "low_pressure"}
Severities    == {"critical", "warning"}

\* 'all' in  zones || ['all'] : not a number
AllZones == 0
\* an unset Date / an unset Number
Unset   == 0
NoValue == -1

ZoneLists == {{1}, {2}, {AllZones}}

\* IRRIGATION_STATUS
PENDING   == "pending"
RUNNING   == "running"
COMPLETED == "completed"
FAILED    == "failed"
CANCELLED == "cancelled"
IRRIGATION_STATUS == {PENDING, RUNNING, COMPLETED, FAILED, CANCELLED}
Terminal == {COMPLETED, FAILED, CANCELLED}

VARIABLES
  events,     \* the IrrigationEvent collection: event id -> document
  farmZones,  \* farm id -> ids of farm.location.zones
  clock,      \* Date.now()
  inflight,   \* the handlers between two awaits, each with what it holds
  response,   \* the last response sent
  alerts,     \* App: the dashboard's alerts state
  clicks,     \* App: the alert ids handleAcknowledgeAlert was called with
  sensors,    \* the Sensor collection: sensor id -> statistics and lastSeen
  readings,   \* the SensorReading collection, in insertion order
  ingesting,  \* the reading handlers between two awaits
  accepted,   \* sensor id -> readings accepted for it so far
  calibration, \* the arguments of a convertMoistureToPercentage call
  percentage, \* what the call returned
  request,    \* the arguments of a generateIrrigationRecommendation call
  recommendation, \* the data it returned
  notificationQueue,   \* the in-memory queue of the notification service
  activeNotifications, \* the notifications it has processed, by id
  calls,      \* where each call of the notification service stands
  running,    \* the call whose synchronous code holds the thread, 0 if none
  candidate,  \* a valid SensorReading about to be saved, and its Sensor
  saved       \* the quality and alerts the save hooks gave it

\* the irrigation lifecycle, and the dashboard
lifecycle == <<events, farmZones, clock, inflight, response>>
dashboard == <<alerts, clicks>>
ingestion == <<sensors, readings, ingesting, accepted>>
conversion == <<calibration, percentage>>
advice == <<request, recommendation>>
dispatch == <<notificationQueue, activeNotifications, calls, running>>
grading == <<candidate, saved>>
notLifecycle == <<dashboard, ingestion, conversion, advice, dispatch, grading>>
notDashboard == <<lifecycle, ingestion, conversion, advice, dispatch, grading>>
notIngestion == <<events, farmZones, inflight, dashboard, conversion, advice,
                  dispatch, grading>>
notConversion == <<lifecycle, dashboard, ingestion, advice, dispatch, grading>>
notAdvice == <<lifecycle, dashboard, ingestion, conversion, dispatch, grading>>
notDispatch == <<lifecycle, dashboard, ingestion, conversion, advice, grading>>
notGrading == <<lifecycle, dashboard, ingestion, conversion, advice, dispatch>>

vars == <<events, farmZones, clock, inflight, response, alerts, clicks,
          sensors, readings, ingesting, accepted, calibration, percentage,
          request, recommendation,
          notificationQueue, activeNotifications, calls, running,
          candidate, saved>>

\* Math.round(a / b * 100) for a >= 0, b > 0
RoundPct(a, b) == (200 * a + b) \div (2 * b)

EventIds == 1..Len(events)

\* The paths of a loaded copy that a handler reads, or that save() compares
\* with what the handler assigned.  The other paths a handler reads never
\* change once the event is stored, and a Date or note a handler assigns is
\* a new value: those are read from and written to the store.
Loaded(doc) ==
  [status |-> doc.status, waterUsed |-> doc.waterUsed,
   efficiency |-> doc.efficiency]

NoDoc == [status |-> "none", waterUsed |-> 0, efficiency |-> NoValue]

\* A handler in flight: its operation, the event id and copy it loaded, the
\* farm and zones of its payload, and whether the farm had no running
\* irrigation when it began.
Request(op, id, farm, zones, doc, clean) ==
  [op |-> op, id |-> id, farm |-> farm, zones |-> zones, doc |-> doc,
   clean |-> clean]

\* The response a handler sends: its outcome.
Responded(op, result) == [result |-> result]

CanBegin == BagCardinality(inflight) < MaxInFlight

\* IrrigationEvent.findOne({ farmId, status: 'running' })
ActiveIrrigation(farm) ==
  {i \in EventIds : events[i].farmId = farm /\ events[i].status = RUNNING}

\* ------------------------------------------------- schema and save hooks

NewEvent(p) ==
  [farmId |-> p.farmId, zones |-> p.zones, duration |-> p.duration,
   planned |-> p.planned, status |-> p.status,
   actualStart |-> Unset, actualEnd |-> Unset,
   waterUsed |-> 0, efficiency |-> NoValue,
   cancelNote |-> FALSE, alerts |-> <<>>]

\* Schema validators of the paths a handler can set.  required stands for the
\* three required paths with no default that are outside the lifecycle
\* (userId, schedule.startTime, trigger.reason).
SchemaValid(doc, required) ==
  /\ required
  /\ doc.planned # NoValue /\ doc.planned >= 0
  /\ AllZones \notin doc.zones
  /\ doc.duration >= 1
  /\ doc.efficiency # NoValue => doc.efficiency \in 0..MaxEfficiency

\* pre('save') #1: planned water amount when it is falsy
PreSaveWater(doc) ==
  IF doc.planned = 0 /\ doc.duration # 0 /\ DefaultFlowRate # 0
    THEN [doc EXCEPT !.planned = doc.duration * DefaultFlowRate * Cardinality(doc.zones)]
    ELSE doc

\* pre('save') #2 with the filter dropped: every zone passes
InvalidZonesMut(zones, farmZoneIds) == {}

\* pre('save') #2: this.zones.filter(zoneId => !farmZoneIds.includes(zoneId))
InvalidZones(zones, farmZoneIds) == {z \in zones : z \notin farmZoneIds}

\* The outcome of create()/save() for the in-memory document doc.
SaveResult(doc, required) ==
  IF ~SchemaValid(doc, required) THEN "ValidationError"
  ELSE IF InvalidZones(doc.zones, farmZones[doc.farmId]) # {} THEN "InvalidZones"
  ELSE "ok"

\* Math.round((waterUsed / planned) * 100); x / 0 is Infinity, above every
\* validator bound.
Efficiency(waterUsed, planned) ==
  IF planned = 0 THEN MaxEfficiency + 1 ELSE RoundPct(waterUsed, planned)

\* ------------------------------------------------------- model methods
\* Each is the set of assignments the method makes to the loaded copy, as a
\* function path -> value; db is the stored event.

\* irrigationEventSchema.methods.start
DocStart(db) == ("status" :> RUNNING) @@ ("actualStart" :> clock)

\* irrigationEventSchema.methods.complete (waterUsed falsy: results untouched)
DocComplete(db, waterUsed) ==
  LET a == ("status" :> COMPLETED) @@ ("actualEnd" :> clock)
  IN IF waterUsed # 0
       THEN a @@ ("waterUsed" :> waterUsed)
              @@ ("efficiency" :> Efficiency(waterUsed, db.planned))
       ELSE a

\* irrigationEventSchema.methods.cancel: a 'Cancelled: reason' line is added
\* to the notes
DocCancel(db) == ("status" :> CANCELLED) @@ ("cancelNote" :> TRUE)

\* stopIrrigation: event.status = 'completed'; endTime and actualDuration are
\* not schema paths and are not persisted.
DocStop(db) == "status" :> COMPLETED

\* The loaded copy after the assignments a: what save() validates.
InMemory(db, snap, a) ==
  [f \in DOMAIN db |->
     IF f \in DOMAIN a THEN a[f]
     ELSE IF f \in DOMAIN snap THEN snap[f] ELSE db[f]]

\* save() of a loaded copy: $set of the assigned paths whose value differs
\* from the loaded one, on the stored document db.
Written(db, snap, a) ==
  [f \in DOMAIN db |->
     IF f \in DOMAIN a /\ (f \in DOMAIN snap => a[f] # snap[f])
       THEN a[f] ELSE db[f]]

\* irrigationEventSchema.methods.addAlert: this.alerts.push({...})
DocAddAlert(type, severity) ==
  [type |-> type, severity |-> severity, timestamp |-> clock,
   acknowledged |-> FALSE]

\* the operations on a stored event
Methods == {"start", "complete", "cancel", "stopIrrigation"}

\* --------------------------------------------------------------- state

\* ----------------------------------------------------- sensor documents

Sensors        == {1, 2}
\* readings.moistureLevel / readings.batteryLevel of a payload, NoValue absent
MoistureLevels == {NoValue, -5, 0, 100, 105}
BatteryLevels  == {NoValue, -5, 50, 105}

\* statistics.lastReading of a sensor that has none yet
NoReading == [moistureLevel |-> NoValue, batteryLevel |-> NoValue, timestamp |-> Unset]

\* a new Sensor: statistics.totalReadings default 0, connectivity.lastSeen
\* default Date.now
NewSensor == [totalReadings |-> 0, lastReading |-> NoReading, lastSeen |-> 1]

\* App: useState([...]) of alerts
InitialAlerts ==
  << [id |-> 1, type |-> "critical", acknowledged |-> FALSE],
     [id |-> 2, type |-> "warning",  acknowledged |-> FALSE],
     [id |-> 3, type |-> "info",     acknowledged |-> TRUE] >>

Callers == 1..MaxCalls

\* a call of the notification service that has not been made
NoCall == [pc |-> "idle", type |-> "", notification |-> 0]

\* the stores as the server and the dashboard start with them
InitStores ==
  /\ events = <<>>
  /\ farmZones = [f \in Farms |-> {1}]
  /\ clock = 1
  /\ inflight = EmptyBag
  /\ response = Responded("none", "none")
  /\ alerts = InitialAlerts
  /\ clicks = <<>>
  /\ sensors = [id \in Sensors |-> NewSensor]
  /\ readings = <<>>
  /\ ingesting = EmptyBag
  /\ accepted = [id \in Sensors |-> 0]
  /\ notificationQueue = <<>>
  /\ activeNotifications = {}
  /\ calls = [c \in Callers |-> NoCall]
  /\ running = 0

\* a number that is null or NaN, as a fraction with no denominator
NoAmount == [num |-> 0, den |-> 0]

\* no weatherData handed to a recommendation
NoWeather == [available |-> FALSE, humidity |-> 0, temperature |-> 0,
              rainfall |-> NoValue]

\* no recommendation returned yet
NoRecommendation ==
  [action |-> "", confidence |-> NoAmount, priority |-> "", timing |-> "",
   duration |-> NoAmount, waterAmount |-> NoAmount, zones |-> <<>>,
   reasoning |-> <<>>]

\* no conversion under way
InitConversion ==
  /\ calibration = [rawValue |-> 417, dryValue |-> 595, wetValue |-> 239]
  /\ percentage = NoValue

\* no recommendation under way
InitAdvice ==
  /\ request = [sensorData |-> <<>>, weatherData |-> NoWeather,
               targetMoisture |-> Unset]
  /\ recommendation = NoRecommendation

\* an optional Number path that is undefined; outside every schema range
Absent == 1000

\* the Sensor paths the save hooks read, with the schema defaults
DefaultThresholds ==
  [moistureEnabled |-> TRUE, low |-> 30, high |-> 90,
   batteryEnabled |-> TRUE, threshold |-> 20, overdue |-> FALSE]

\* a reading the save hooks have not run on
NotSaved == [quality |-> "", alerts |-> <<>>]

\* no reading is being saved
InitGrading ==
  /\ candidate = [moistureLevel |-> 50, batteryLevel |-> 100,
                  temperature |-> Absent, humidity |-> Absent,
                  signalStrength |-> Absent, sensor |-> DefaultThresholds]
  /\ saved = NotSaved

\* no helper call is under way
InitCalls == InitConversion /\ InitAdvice /\ InitGrading

Init == InitStores /\ InitCalls

\* Date.now() moves on between two steps
Tick ==
  /\ clock < MaxClock
  /\ clock' = clock + 1
  /\ UNCHANGED <<events, farmZones, inflight, response>>

\* IrrigationEvent.create(event) with the schema's default status
Create(farm, zones, duration, planned, required) ==
  LET doc == NewEvent([farmId |-> farm, zones |-> zones, duration |-> duration,
                       planned |-> planned, status |-> PENDING])
      res == SaveResult(doc, required)
  IN /\ UNCHANGED <<farmZones, clock, inflight>>
     /\ Len(events) < MaxEvents
     /\ events' = IF res = "ok" THEN Append(events, PreSaveWater(doc)) ELSE events
     /\ response' = Responded("create", res)

\* startIrrigation up to its second await: the check for an active irrigation
StartIrrigationCheck(farm, zones) ==
  /\ CanBegin
  /\ IF ActiveIrrigation(farm) # {}
       THEN /\ response' = Responded("startIrrigation", "IRRIGATION_ACTIVE")
            /\ UNCHANGED inflight
       ELSE /\ inflight' = inflight (+)
                 SetToBag({Request("startIrrigation", 0, farm, zones, NoDoc, TRUE)})
            /\ UNCHANGED response
  /\ UNCHANGED <<events, farmZones, clock>>

\* startIrrigation from IrrigationEvent.create on: the payload carries farmId,
\* type, status, duration and zones; startedBy and startTime are no schema
\* paths, userId, waterAmount.planned, schedule.startTime and trigger.reason
\* are absent.
StartIrrigationCreate(q, duration) ==
  LET doc == NewEvent([farmId |-> q.farm, zones |-> q.zones,
                       duration |-> duration, planned |-> NoValue,
                       status |-> RUNNING])
      res == SaveResult(doc, FALSE)
  IN /\ q.op = "startIrrigation"
     /\ res = "ok" => Len(events) < MaxEvents
     /\ events' = IF res = "ok" THEN Append(events, PreSaveWater(doc)) ELSE events
     /\ inflight' = inflight (-) SetToBag({q})
     /\ response' = Responded(q.op, res)
     /\ UNCHANGED <<farmZones, clock>>

\* scheduleIrrigation: the same payload with status 'pending'
ScheduleIrrigation(farm, zones, duration) ==
  LET doc == NewEvent([farmId |-> farm, zones |-> zones, duration |-> duration,
                       planned |-> NoValue, status |-> PENDING])
      res == SaveResult(doc, FALSE)
  IN /\ UNCHANGED <<farmZones, clock, inflight>>
     /\ res = "ok" => Len(events) < MaxEvents
     /\ events' = IF res = "ok" THEN Append(events, PreSaveWater(doc)) ELSE events
     /\ response' = Responded("scheduleIrrigation", res)

\* IrrigationEvent.findById(id): the caller now holds a copy of the document
LoadEvent(op, id) ==
  /\ CanBegin
  /\ id \in EventIds
  /\ inflight' = inflight (+)
       SetToBag({Request(op, id, events[id].farmId, {}, Loaded(events[id]),
                         ActiveIrrigation(events[id].farmId) = {})})
  /\ UNCHANGED <<events, farmZones, clock, response>>

\* doc.save() of the loaded copy q.doc after a method made the assignments a
Save(q, a) ==
  LET db  == events[q.id]
      res == SaveResult(InMemory(db, q.doc, a), TRUE)
  IN /\ events' = IF res = "ok"
                    THEN [events EXCEPT ![q.id] = PreSaveWater(Written(db, q.doc, a))]
                    ELSE events
     /\ inflight' = inflight (-) SetToBag({q})
     /\ response' = Responded(q.op, res)

Start(q) ==
  /\ q.op = "start"
  /\ Save(q, DocStart(events[q.id]))
  /\ UNCHANGED <<farmZones, clock>>

Complete(q, waterUsed) ==
  /\ q.op = "complete"
  /\ Save(q, DocComplete(events[q.id], waterUsed))
  /\ UNCHANGED <<farmZones, clock>>

Cancel(q) ==
  /\ q.op = "cancel"
  /\ Save(q, DocCancel(events[q.id]))
  /\ UNCHANGED <<farmZones, clock>>

\* stopIrrigation after findById
StopIrrigation(q) ==
  /\ q.op = "stopIrrigation"
  /\ IF q.doc.status # RUNNING
       THEN /\ inflight' = inflight (-) SetToBag({q})
            /\ response' = Responded(q.op, "IRRIGATION_NOT_RUNNING")
            /\ UNCHANGED events
       ELSE Save(q, DocStop(events[q.id]))
  /\ UNCHANGED <<farmZones, clock>>

\* addAlert after findById: save() sends the pushed element as a $push
AddAlert(q, type, severity) ==
  LET db  == events[q.id]
      res == SaveResult(InMemory(db, q.doc, <<>>), TRUE)
  IN /\ q.op = "addAlert"
     /\ Len(db.alerts) < MaxAlerts
     /\ events' = IF res = "ok"
                    THEN [events EXCEPT ![q.id].alerts =
                            Append(@, DocAddAlert(type, severity))]
                    ELSE events
     /\ inflight' = inflight (-) SetToBag({q})
     /\ response' = Responded(q.op, res)
     /\ UNCHANGED <<farmZones, clock>>

\* the handlers that respond in one step
Single(farms) ==
  \/ \E farm \in farms, zones \in ZoneLists, duration \in Durations,
        planned \in PlannedVals, required \in BOOLEAN :
        Create(farm, zones, duration, planned, required)
  \/ \E farm \in farms, zones \in ZoneLists, duration \in Durations :
        ScheduleIrrigation(farm, zones, duration)

\* a handler runs up to its await
Begin(farms, ops) ==
  \/ \E farm \in farms, zones \in ZoneLists : StartIrrigationCheck(farm, zones)
  \/ \E id \in EventIds, op \in ops : LoadEvent(op, id)

\* a handler resumes after its await and responds
Finish ==
  \/ \E q \in BagToSet(inflight), duration \in Durations :
        StartIrrigationCreate(q, duration)
  \/ \E q \in BagToSet(inflight) : Start(q)
  \/ \E q \in BagToSet(inflight), waterUsed \in WaterUsedVals : Complete(q, waterUsed)
  \/ \E q \in BagToSet(inflight) : Cancel(q)
  \/ \E q \in BagToSet(inflight) : StopIrrigation(q)

\* The lifecycle with one handler between its awaits at a time.
Next ==
  \/ Tick /\ UNCHANGED notLifecycle
  \/ Single(Farms) /\ UNCHANGED notLifecycle
  \/ inflight = EmptyBag /\ Begin(Farms, Methods) /\ UNCHANGED notLifecycle
  \/ Finish /\ UNCHANGED notLifecycle

Spec == Init /\ [][Next]_vars

\* Up to MaxInFlight handlers between their awaits, contending for one farm
\* within one clock value.
NextRace ==
  \/ Single(RaceFarms) /\ UNCHANGED notLifecycle
  \/ Begin(RaceFarms, Methods) /\ UNCHANGED notLifecycle
  \/ Finish /\ UNCHANGED notLifecycle

SpecRace == Init /\ [][NextRace]_vars

\* Alerts pushed on the events of one farm.
NextAlerts ==
  \/ Tick /\ UNCHANGED notLifecycle
  \/ Single(RaceFarms) /\ UNCHANGED notLifecycle
  \/ inflight = EmptyBag /\ Begin(RaceFarms, {"addAlert"}) /\ UNCHANGED notLifecycle
  \/ \E q \in BagToSet(inflight), duration \in Durations :
        StartIrrigationCreate(q, duration) /\ UNCHANGED notLifecycle
  \/ \E q \in BagToSet(inflight), type \in AlertTypes, severity \in Severities :
        AddAlert(q, type, severity) /\ UNCHANGED notLifecycle

SpecAlerts == Init /\ [][NextAlerts]_vars

\* farmSchema.methods.addZone: the next id is the greatest id plus one, or 1
AddZone(farm) ==
  LET zoneIds == farmZones[farm]
      nextId == IF zoneIds # {}
                  THEN (CHOOSE z \in zoneIds : \A y \in zoneIds : y <= z) + 1
                  ELSE 1
  IN /\ Cardinality(zoneIds) < MaxZones
     /\ farmZones' = [farmZones EXCEPT ![farm] = zoneIds \cup {nextId}]
     /\ UNCHANGED <<events, clock, inflight, response>>

\* farmSchema.methods.removeZone: the zones filtered on zone.id !== zoneId
RemoveZone(farm, zoneId) ==
  /\ zoneId \in farmZones[farm]
  /\ farmZones' = [farmZones EXCEPT ![farm] = {z \in @ : z # zoneId}]
  /\ UNCHANGED <<events, clock, inflight, response>>

\* The events of one farm whose zones are edited: one handler between its
\* awaits at a time.
NextZones ==
  \/ \E zones \in ZoneLists, duration \in Durations, planned \in PlannedVals,
        required \in BOOLEAN :
        Create(1, zones, duration, planned, required) /\ UNCHANGED notLifecycle
  \/ \E id \in EventIds, op \in {"start", "complete", "cancel"} :
        inflight = EmptyBag /\ LoadEvent(op, id) /\ UNCHANGED notLifecycle
  \/ \E q \in BagToSet(inflight) : Start(q) /\ UNCHANGED notLifecycle
  \/ \E q \in BagToSet(inflight), waterUsed \in WaterUsedVals :
        Complete(q, waterUsed) /\ UNCHANGED notLifecycle
  \/ \E q \in BagToSet(inflight) : Cancel(q) /\ UNCHANGED notLifecycle
  \/ AddZone(1) /\ UNCHANGED notLifecycle
  \/ \E zoneId \in 1..(MaxZones + 1) :
        RemoveZone(1, zoneId) /\ UNCHANGED notLifecycle

SpecZones == Init /\ [][NextZones]_vars

\* ------------------------------------------------------------ dashboard

\* the alert ids a click can carry; 4 is the id of no alert
AlertIds == 1..4

\* prev.map(alert => alert.id === alertId ? { ...alert, acknowledged: true } : alert)
AcknowledgeMut(prev, alertId) ==
  [i \in 1..Len(prev) |->
     IF prev[i].id = alertId
       THEN [prev[i] EXCEPT !.acknowledged = ~prev[i].acknowledged]
       ELSE prev[i]]

Acknowledge(prev, alertId) ==
  [i \in 1..Len(prev) |->
     IF prev[i].id = alertId
       THEN [prev[i] EXCEPT !.acknowledged = TRUE]
       ELSE prev[i]]

\* App: handleAcknowledgeAlert(alertId)
HandleAcknowledgeAlert(alertId) ==
  /\ Len(clicks) < MaxClicks
  /\ alerts' = Acknowledge(alerts, alertId)
  /\ clicks' = Append(clicks, alertId)
  /\ UNCHANGED notDashboard

NextApp == \E alertId \in AlertIds : HandleAcknowledgeAlert(alertId)

SpecApp == Init /\ [][NextApp]_vars

\* ------------------------------------------------------ sensor readings

\* A reading handler in flight: its operation, the sensor it loaded (and the
\* statistics.totalReadings of the loaded copy), and the reading it inserted.
Ingest(op, sensor, total, doc) ==
  [op |-> op, sensor |-> sensor, total |-> total, doc |-> doc]

NoDocument == [sensorId |-> 0, farmId |-> FALSE, moistureLevel |-> NoValue,
               batteryLevel |-> NoValue, timestamp |-> Unset]

\* sensorValidations.addReading on the moisture and battery of a body:
\* isFloat({ min: 0, max: 100 }), not optional
AddReadingValid(body) ==
  /\ body.moistureLevel # NoValue /\ body.moistureLevel >= 0 /\ body.moistureLevel <= 100
  /\ body.batteryLevel # NoValue /\ body.batteryLevel >= 0 /\ body.batteryLevel <= 100

\* a level path with its min and max validators dropped
LevelErrorsMut(level) == IF level = NoValue THEN {"required"} ELSE {}

\* the validators of readings.moistureLevel and readings.batteryLevel that
\* fail on a value: required, min 0, max 100
LevelErrors(level) ==
  IF level = NoValue THEN {"required"}
  ELSE IF level < 0 THEN {"min"}
  ELSE IF level > 100 THEN {"max"}
  ELSE {}

\* the kinds of the validators of sensorReadingSchema that fail on a document
ReadingErrors(doc) ==
  (IF doc.farmId THEN {} ELSE {"required"})
    \cup LevelErrors(doc.moistureLevel) \cup LevelErrors(doc.batteryLevel)

\* the ValidationError response with the kinds of the failed validators
RespondedInvalid(result, kinds) == [result |-> result, kinds |-> kinds]

\* the payloads a device sends, with no sensorId of their own to override
\* req.params.id in { sensorId: req.params.id, ...req.body }: farmId present
\* or not, the two levels, and a timestamp of the device's or none
Bodies ==
  [farmId : BOOLEAN, moistureLevel : MoistureLevels,
   batteryLevel : BatteryLevels, timestamp : {Unset, 1}]

\* the document SensorReading.create builds from the handler's payload
ReadingDoc(id, body) ==
  [sensorId |-> id,
   farmId |-> body.farmId,
   moistureLevel |-> body.moistureLevel,
   batteryLevel |-> body.batteryLevel,
   timestamp |-> IF body.timestamp # Unset THEN body.timestamp ELSE clock]

\* post('save'): Sensor.findByIdAndUpdate with $inc and $set, one update
PostSaveUpdate(sensor, doc) ==
  [totalReadings |-> sensor.totalReadings + 1,
   lastReading |-> [moistureLevel |-> doc.moistureLevel,
                    batteryLevel |-> doc.batteryLevel,
                    timestamp |-> doc.timestamp],
   lastSeen |-> doc.timestamp]

RECURSIVE Total(_, _)
Total(count, ids) ==
  IF ids = {} THEN 0
  ELSE LET id == CHOOSE x \in ids : TRUE
       IN count[id] + Total(count, ids \ {id})

\* the readings submitted so far: accepted, or with their handler in flight
Submitted == Total(accepted, Sensors) + BagCardinality(ingesting)

\* addSensorReading up to its first await: Sensor.findById(req.params.id)
AddSensorReadingFind(id) ==
  /\ BagCardinality(ingesting) < MaxInFlight
  /\ Submitted < MaxReadings
  /\ ingesting' = ingesting (+)
       SetToBag({Ingest("addSensorReading", id, sensors[id].totalReadings, NoDocument)})
  /\ UNCHANGED <<sensors, readings, accepted, response, clock>>

\* addSensorReading, SensorReading.create up to the insert: the route's
\* validators when the request came through them (checked), the schema's
\* validators, then the insert
SensorReadingCreate(q, body, checked) ==
  LET doc == ReadingDoc(q.sensor, body)
      res == IF checked /\ ~AddReadingValid(body) THEN "VALIDATION_ERROR"
             ELSE IF ReadingErrors(doc) # {} THEN "ValidationError"
             ELSE "ok"
  IN /\ q.op = "addSensorReading" /\ q.doc = NoDocument
     /\ IF res = "ok"
          THEN /\ readings' = Append(readings, doc)
               /\ ingesting' = (ingesting (-) SetToBag({q})) (+)
                    SetToBag({[q EXCEPT !.doc = doc]})
               /\ UNCHANGED response
          ELSE /\ UNCHANGED readings
               /\ response' = RespondedInvalid(res, ReadingErrors(doc))
               /\ ingesting' = ingesting (-) SetToBag({q})
     /\ UNCHANGED <<sensors, accepted, clock>>

\* addSensorReading from the post('save') hook on: the statistics update, then
\* sensor.save() of the copy loaded first, on which lastReading and
\* lastUpdated are no schema paths (nothing is written), then the response
SensorReadingPostSave(q) ==
  /\ q.op = "addSensorReading" /\ q.doc # NoDocument
  /\ sensors' = [sensors EXCEPT ![q.doc.sensorId] = PostSaveUpdate(@, q.doc)]
  /\ accepted' = [accepted EXCEPT ![q.doc.sensorId] = @ + 1]
  /\ ingesting' = ingesting (-) SetToBag({q})
  /\ response' = Responded(q.op, "ok")
  /\ UNCHANGED <<readings, clock>>

\* Sensor.findById(id) by a caller of sensor.updateStatistics
UpdateStatisticsFind(id) ==
  /\ BagCardinality(ingesting) < MaxInFlight
  /\ Submitted < MaxReadings
  /\ ingesting' = ingesting (+)
       SetToBag({Ingest("updateStatistics", id, sensors[id].totalReadings, NoDocument)})
  /\ UNCHANGED <<sensors, readings, accepted, response, clock>>

\* sensorSchema.methods.updateStatistics(readingData) on the loaded copy:
\* totalReadings += 1 on the copy, then save() sets the assigned paths
UpdateStatistics(q, moistureLevel, batteryLevel) ==
  /\ q.op = "updateStatistics"
  /\ sensors' = [sensors EXCEPT ![q.sensor] =
                   [totalReadings |-> q.total + 1,
                    lastReading |-> [moistureLevel |-> moistureLevel,
                                     batteryLevel |-> batteryLevel,
                                     timestamp |-> clock],
                    lastSeen |-> clock]]
  /\ accepted' = [accepted EXCEPT ![q.sensor] = @ + 1]
  /\ ingesting' = ingesting (-) SetToBag({q})
  /\ response' = Responded(q.op, "ok")
  /\ UNCHANGED <<readings, clock>>

NextIngest ==
  \/ Tick /\ UNCHANGED notLifecycle
  \/ \E id \in Sensors : AddSensorReadingFind(id)
        /\ UNCHANGED notIngestion
  \/ \E q \in BagToSet(ingesting), body \in Bodies, checked \in BOOLEAN :
        SensorReadingCreate(q, body, checked)
        /\ UNCHANGED notIngestion
  \/ \E q \in BagToSet(ingesting) : SensorReadingPostSave(q)
        /\ UNCHANGED notIngestion
  \/ \E id \in Sensors : UpdateStatisticsFind(id)
        /\ UNCHANGED notIngestion
  \/ \E q \in BagToSet(ingesting), m \in MoistureLevels, b \in BatteryLevels :
        UpdateStatistics(q, m, b)
        /\ UNCHANGED notIngestion

SpecIngest == Init /\ [][NextIngest]_vars

\* ------------------------------------------------------------- helpers

\* the raw ADC values and calibration values of a call
RawValues == {200, 238, 239, 240, 241, 300, 416, 417, 418, 593, 594, 595, 600}
DryValues == {239, 300, 595}
WetValues == {239, 300, 595}

\* Math.round(n / d) for n >= 0, d > 0
Round(n, d) == (2 * n + d) \div (2 * d)

\* convertMoistureToPercentage with Math.floor for Math.round
ConvertMoistureToPercentageMut(rawValue, dryValue, wetValue) ==
  IF rawValue <= wetValue THEN 100
  ELSE IF rawValue >= dryValue THEN 0
  ELSE ((dryValue - rawValue) * 100) \div (dryValue - wetValue)

\* convertMoistureToPercentage: past the two early returns
\* wetValue < rawValue < dryValue, the percentage lies strictly between 0
\* and 100, the clamp passes it on, and Math.round rounds it
ConvertMoistureToPercentage(rawValue, dryValue, wetValue) ==
  IF rawValue <= wetValue THEN 100
  ELSE IF rawValue >= dryValue THEN 0
  ELSE LET rounded == Round((dryValue - rawValue) * 100, dryValue - wetValue)
       IN IF rounded < 0 THEN 0 ELSE IF rounded > 100 THEN 100 ELSE rounded

\* a call of the helper on drawn arguments
InitConvert ==
  /\ InitStores /\ InitAdvice /\ InitGrading
  /\ calibration \in [rawValue : RawValues, dryValue : DryValues, wetValue : WetValues]
  /\ percentage = NoValue

Convert ==
  /\ percentage = NoValue
  /\ percentage' = ConvertMoistureToPercentage(calibration.rawValue,
                       calibration.dryValue, calibration.wetValue)
  /\ UNCHANGED <<calibration, notConversion>>

SpecConvert == InitConvert /\ [][Convert]_vars

\* --------------------------------------------------- recommendations

DefaultTargetMoisture == 80
HighHumidity == 85
RainThreshold == 5
HighTemperature == 35
MinDuration == 10
MaxDuration == 60
LitersPerMinute == 5

\* the readings a recommendation is computed from; SensorReading documents
\* carry a moistureLevel and a quality, and no zone
Samples == [moistureLevel : {20, 21, 32, 48, 64, 90},
            quality : {"excellent", "good", "poor"}]
SampleLists == UNION {[1..k -> Samples] : k \in 0..MaxSamples}

\* weatherData: absent, or current conditions with the first forecast entry's
\* rainfall (NoValue when there is no forecast)
Weathers == {NoWeather} \cup
  [available : {TRUE}, humidity : {50, 90}, temperature : {30, 40},
   rainfall : {NoValue, 5, 10}]

\* farmSettings.targetMoisture; Unset when the farm has none
Targets == {Unset, 50}

Max(a, b) == IF a >= b THEN a ELSE b
Min(a, b) == IF a <= b THEN a ELSE b

\* sum of the moisture levels, the reduce of the source
RECURSIVE SumMoisture(_)
SumMoisture(sensorData) ==
  IF sensorData = <<>> THEN 0
  ELSE sensorData[1].moistureLevel + SumMoisture(Tail(sensorData))

\* farmSettings.targetMoisture || 80
TargetMoisture(targetMoisture) ==
  IF targetMoisture = Unset THEN DefaultTargetMoisture ELSE targetMoisture

\* the comparison made inclusive
AverageBelowMut(sensorData, target, tenths) ==
  /\ sensorData # <<>>
  /\ 10 * SumMoisture(sensorData) <= tenths * target * Len(sensorData)

\* avgMoisture < targetMoisture * tenths / 10, with avgMoisture = sum / n;
\* false for an empty list, whose average is NaN
AverageBelow(sensorData, target, tenths) ==
  /\ sensorData # <<>>
  /\ 10 * SumMoisture(sensorData) < tenths * target * Len(sensorData)

\* the moisture analysis: action, confidence in tenths, priority and the
\* kind of the reasoning line it pushes
Moisture(sensorData, target) ==
  IF AverageBelow(sensorData, target, 4)
    THEN [action |-> "irrigate_now", tenths |-> 9, priority |-> "critical",
          timing |-> "", reasoning |-> <<"Critical moisture level">>]
  ELSE IF AverageBelow(sensorData, target, 6)
    THEN [action |-> "irrigate_soon", tenths |-> 7, priority |-> "high",
          timing |-> "", reasoning |-> <<"Low moisture level">>]
  ELSE IF AverageBelow(sensorData, target, 8)
    THEN [action |-> "schedule_irrigation", tenths |-> 5, priority |-> "medium",
          timing |-> "", reasoning |-> <<"Moderate moisture level">>]
  ELSE [action |-> "none", tenths |-> 0, priority |-> "low",
        timing |-> "", reasoning |-> <<>>]

RainExpectedMut(weatherData) ==
  FALSE

\* weatherData.forecast && weatherData.forecast[0]?.rainfall > 5
RainExpected(weatherData) ==
  weatherData.rainfall > RainThreshold

\* the weather analysis applied to the outcome of the moisture analysis
Weather(base, weatherData) ==
  LET humid == IF weatherData.humidity > HighHumidity
               THEN [base EXCEPT !.tenths = @ - 2,
                                 !.reasoning = Append(@, "High humidity")]
               ELSE base
      rain  == IF RainExpected(weatherData)
               THEN [humid EXCEPT !.action = "postpone", !.tenths = 8,
                                  !.reasoning = Append(@, "Rain expected")]
               ELSE humid
      heat  == IF weatherData.temperature > HighTemperature
               THEN [rain EXCEPT !.timing = "early_morning",
                                 !.reasoning = Append(@, "High temperature")]
               ELSE rain
  IN  IF weatherData.available THEN heat ELSE base

\* recommendation.action.includes('irrigate')
IncludesIrrigate(action) == action \in {"irrigate_now", "irrigate_soon"}

\* Math.min(60, Math.max(10, moistureDeficit * 0.5)) as a fraction over 2n,
\* with moistureDeficit = Math.max(0, targetMoisture - avgMoisture)
Duration(sensorData, target) ==
  LET n == Len(sensorData)
      deficit == Max(0, target * n - SumMoisture(sensorData))
  IN  [num |-> Min(MaxDuration * 2 * n, Max(MinDuration * 2 * n, deficit)),
       den |-> 2 * n]

\* the zones of the readings under 0.7 of the target, zone 1 by default
RECURSIVE DryZones(_, _)
DryZones(sensorData, target) ==
  IF sensorData = <<>> THEN <<>>
  ELSE (IF 10 * sensorData[1].moistureLevel < 7 * target THEN <<1>> ELSE <<>>)
       \o DryZones(Tail(sensorData), target)

Zones(sensorData, target) ==
  IF DryZones(sensorData, target) = <<>> THEN <<1>>
  ELSE DryZones(sensorData, target)

\* the number of readings whose quality is 'good'
GoodReadings(sensorData) ==
  Cardinality({i \in 1..Len(sensorData) : sensorData[i].quality = "good"})

\* generateIrrigationRecommendation: the data of its result.  confidence is
\* tenths * good / (10 * n), a fraction whose denominator 0 stands for NaN
GenerateIrrigationRecommendation(sensorData, weatherData, targetMoisture) ==
  LET target == TargetMoisture(targetMoisture)
      r == Weather(Moisture(sensorData, target), weatherData)
      irrigate == IncludesIrrigate(r.action)
      duration == IF irrigate THEN Duration(sensorData, target) ELSE NoAmount
  IN  [action |-> r.action,
       confidence |-> [num |-> r.tenths * GoodReadings(sensorData),
                       den |-> 10 * Len(sensorData)],
       priority |-> r.priority,
       timing |-> r.timing,
       duration |-> duration,
       waterAmount |-> [duration EXCEPT !.num = @ * LitersPerMinute],
       zones |-> IF irrigate THEN Zones(sensorData, target) ELSE <<>>,
       reasoning |-> r.reasoning]

\* a call about to be made with any of the bounded arguments
InitRecommend ==
  /\ InitStores /\ InitConversion /\ InitGrading
  /\ request \in [sensorData : SampleLists, weatherData : Weathers,
                  targetMoisture : Targets]
  /\ recommendation = NoRecommendation

Recommend ==
  /\ recommendation = NoRecommendation
  /\ recommendation' = GenerateIrrigationRecommendation(
       request.sensorData, request.weatherData, request.targetMoisture)
  /\ UNCHANGED <<request, notAdvice>>

SpecRecommend == InitRecommend /\ [][Recommend]_vars

\* ----------------------------------------------------- notifications
\* Node.js runs the synchronous code of one call at a time: a call keeps the
\* thread (running) from one await that really suspends to the next, and
\* Date.now() moves on whether or not the thread is held.

NotificationTypes == {"alert", "irrigation", "system"}

\* data.scheduledAt as the caller of a send function passes it: only
\* sendSystemNotification forwards the caller's data, the other two build it
\* without a scheduledAt
ScheduledAts(type) ==
  IF type = "system" THEN {Unset} \cup (1..MaxClock) ELSE {Unset}

\* createNotification: scheduledAt: data.scheduledAt || new Date()
CreateNotification(id, type, scheduledAt) ==
  [id |-> id, type |-> type,
   scheduledAt |-> IF scheduledAt = Unset THEN clock ELSE scheduledAt]

\* notification.scheduledAt > new Date()
NotYet(notification) == notification.scheduledAt > clock

\* sendAlert / sendIrrigationNotification / sendSystemNotification up to the
\* first iteration of processNotificationQueue: the notification is created
\* and queued, and the loop is entered without giving up the thread
Send(c, type, scheduledAt) ==
  /\ running = 0
  /\ calls[c].pc = "idle"
  /\ notificationQueue' =
       Append(notificationQueue, CreateNotification(c, type, scheduledAt))
  /\ calls' = [calls EXCEPT ![c] = [pc |-> "loop", type |-> type, notification |-> 0]]
  /\ running' = c
  /\ UNCHANGED <<activeNotifications, notDispatch>>

\* processNotificationQueue, an iteration whose notification is not due: it
\* is put back and the loop goes on, with no await.  When it is the only
\* one queued the iteration leaves the queue as it found it: the loop spins
\* in one state until the date changes.
PutBack(c) ==
  /\ running = c
  /\ calls[c].pc = "loop"
  /\ notificationQueue # <<>>
  /\ NotYet(Head(notificationQueue))
  /\ notificationQueue' = Append(Tail(notificationQueue), Head(notificationQueue))
  /\ UNCHANGED <<activeNotifications, calls, running, notDispatch>>

\* processNotificationQueue, an iteration whose notification is due:
\* sendNotification starts and suspends on the delivery to a channel
Take(c) ==
  /\ running = c
  /\ calls[c].pc = "loop"
  /\ notificationQueue # <<>>
  /\ ~NotYet(Head(notificationQueue))
  /\ notificationQueue' = Tail(notificationQueue)
  /\ calls' = [calls EXCEPT ![c].pc = "sending",
                            ![c].notification = Head(notificationQueue).id]
  /\ running' = 0
  /\ UNCHANGED <<activeNotifications, notDispatch>>

\* sendNotification after the deliveries: the notification is stored with
\* its status and the loop is entered again
Deliver(c, status) ==
  /\ running = 0
  /\ calls[c].pc = "sending"
  /\ activeNotifications' =
       {n \in activeNotifications : n.id # calls[c].notification}
         \cup {[id |-> calls[c].notification, status |-> status]}
  /\ calls' = [calls EXCEPT ![c].pc = "loop", ![c].notification = 0]
  /\ running' = c
  /\ UNCHANGED <<notificationQueue, notDispatch>>

\* processNotificationQueue finds the queue empty: the send function returns
\* { success: true }
Return(c) ==
  /\ running = c
  /\ calls[c].pc = "loop"
  /\ notificationQueue = <<>>
  /\ calls' = [calls EXCEPT ![c].pc = "returned"]
  /\ running' = 0
  /\ UNCHANGED <<notificationQueue, activeNotifications, notDispatch>>

\* the steps of a call the runtime takes on its own once it was made
Dispatch(c) ==
  \/ PutBack(c)
  \/ Take(c)
  \/ \E status \in {"sent", "partial", "failed"} : Deliver(c, status)
  \/ Return(c)

NextNotify ==
  \/ Tick /\ UNCHANGED notLifecycle
  \/ \E c \in Callers, type \in NotificationTypes :
       \E scheduledAt \in ScheduledAts(type) : Send(c, type, scheduledAt)
  \/ \E c \in Callers : PutBack(c)
  \/ \E c \in Callers : Take(c)
  \/ \E c \in Callers, status \in {"sent", "partial", "failed"} : Deliver(c, status)
  \/ \E c \in Callers : Return(c)

\* the runtime keeps running the code of a call that can go on; nothing
\* obliges a caller to call, and nothing in the code makes the date advance
SpecNotify ==
  Init /\ [][NextNotify]_vars /\ \A c \in Callers : WF_vars(Dispatch(c))

\* ------------------------------------------------ reading save hooks
\* The pre('save') hooks of SensorReading on a document that passed the
\* schema validation, which runs before them: every value is in its range.

\* readings.* of a valid document
ValidReadings ==
  [moistureLevel : {30, 31, 50, 89, 90},
   batteryLevel : {5, 8, 10, 11, 19, 20, 39, 40},
   temperature : {Absent, 0, 25},
   humidity : {Absent, 0, 50},
   signalStrength : {Absent, -90, -80, -75, -70, 0}]

\* sensor.alerts.* of the owning Sensor, each threshold within its validators,
\* and whether its calibration is more than 180 days old
Thresholds ==
  [moistureEnabled : BOOLEAN, low : {30, 50}, high : {50, 90},
   batteryEnabled : BOOLEAN, threshold : {5, 20}, overdue : BOOLEAN]

\* !value of an optional Number: undefined and 0 are both falsy
Falsy(value) == value = Absent \/ value = 0

\* pre('save') #1: qualityScore
QualityScore(r) ==
  100
  - (IF ~Falsy(r.signalStrength)
       THEN (IF r.signalStrength < -80 THEN 20
             ELSE IF r.signalStrength < -70 THEN 10 ELSE 0)
       ELSE 0)
  - (IF r.batteryLevel < 20 THEN 15 ELSE IF r.batteryLevel < 40 THEN 5 ELSE 0)
  - (IF Falsy(r.temperature) THEN 5 ELSE 0)
  - (IF Falsy(r.humidity) THEN 5 ELSE 0)

\* pre('save') #1: this.quality
Quality(qualityScore) ==
  IF qualityScore >= 90 THEN "excellent"
  ELSE IF qualityScore >= 75 THEN "good"
  ELSE IF qualityScore >= 60 THEN "fair"
  ELSE "poor"

Alert(type, severity) == [type |-> type, severity |-> severity]

\* the moisture check with the low comparison made strict
MoistureAlertsMut(r, sensor) ==
  IF ~sensor.moistureEnabled THEN <<>>
  ELSE IF r.moistureLevel < sensor.low
    THEN <<Alert("low_moisture", "critical")>>
  ELSE IF r.moistureLevel >= sensor.high
    THEN <<Alert("high_moisture", "warning")>>
  ELSE <<>>

\* pre('save') #2: the moisture check
MoistureAlerts(r, sensor) ==
  IF ~sensor.moistureEnabled THEN <<>>
  ELSE IF r.moistureLevel <= sensor.low
    THEN <<Alert("low_moisture", "critical")>>
  ELSE IF r.moistureLevel >= sensor.high
    THEN <<Alert("high_moisture", "warning")>>
  ELSE <<>>

\* pre('save') #2: the battery check
BatteryAlerts(r, sensor) ==
  IF sensor.batteryEnabled /\ r.batteryLevel <= sensor.threshold
    THEN <<Alert("low_battery",
                 IF r.batteryLevel <= 10 THEN "critical" ELSE "warning")>>
    ELSE <<>>

\* pre('save') #2: unrealistic values, and an old calibration
OtherAlerts(r, sensor) ==
  (IF r.moistureLevel < 0 \/ r.moistureLevel > 100
     THEN <<Alert("sensor_error", "critical")>> ELSE <<>>)
  \o (IF sensor.overdue THEN <<Alert("calibration_needed", "info")>> ELSE <<>>)

\* the two hooks in registration order
PreSave(r) ==
  [quality |-> Quality(QualityScore(r)),
   alerts |-> MoistureAlerts(r, r.sensor) \o BatteryAlerts(r, r.sensor)
                \o OtherAlerts(r, r.sensor)]

InitSave ==
  /\ InitStores /\ InitConversion /\ InitAdvice
  /\ \E r \in ValidReadings, sensor \in Thresholds :
       candidate = [moistureLevel |-> r.moistureLevel,
                    batteryLevel |-> r.batteryLevel,
                    temperature |-> r.temperature, humidity |-> r.humidity,
                    signalStrength |-> r.signalStrength, sensor |-> sensor]
  /\ saved = NotSaved

SaveReading ==
  /\ saved = NotSaved
  /\ saved' = PreSave(candidate)
  /\ UNCHANGED <<candidate, notGrading>>

SpecSave == InitSave /\ [][SaveReading]_vars

\* ----------------------------------------------------------- properties

\* a ConflictError response
Conflict == {"IRRIGATION_ACTIVE", "IRRIGATION_NOT_RUNNING"}

\* C1: in every reachable state each farm has at most one running
\* irrigation event.
C1_AtMostOneRunningPerFarm ==
  \A f \in Farms : Cardinality(ActiveIrrigation(f)) <= 1

\* a payload rejected for what it holds
Rejected == {"ValidationError", "InvalidZones"}

\* C2: of the start requests (start() or startIrrigation) that run
\* concurrently for a farm with no running irrigation exactly one succeeds:
\* one that began while the farm had no running irrigation and resumes when
\* a concurrent start has made one running is answered IRRIGATION_ACTIVE and
\* writes nothing (a request whose payload is rejected apart).
C2_ConcurrentStartsExclusive ==
  [][\A q \in BagToSet(inflight) :
       ( /\ Start(q) \/ \E d \in Durations : StartIrrigationCreate(q, d)
         /\ q.clean
         /\ ActiveIrrigation(q.farm) # {}
         /\ response'.result \notin Rejected )
       => /\ response'.result = "IRRIGATION_ACTIVE"
          /\ events' = events]_vars

\* C3: complete() or stopIrrigation on an event that is already completed is
\* answered with a ConflictError and leaves the event as it was.
C3_SecondCompleteRejected ==
  [][\A q \in BagToSet(inflight) :
       ( /\ StopIrrigation(q) \/ \E w \in WaterUsedVals : Complete(q, w)
         /\ events[q.id].status = COMPLETED )
       => /\ response'.result \in Conflict
          /\ events'[q.id] = events[q.id]]_vars

\* C4: the status of a completed, failed or cancelled event never changes,
\* and complete() on a cancelled event is answered with a ConflictError.
C4_TerminalIsFinal ==
  [][/\ \A i \in EventIds :
          events[i].status \in Terminal => events'[i].status = events[i].status
     /\ \A q \in BagToSet(inflight) :
          ( /\ \E w \in WaterUsedVals : Complete(q, w)
            /\ events[q.id].status = CANCELLED )
          => response'.result \in Conflict]_vars

\* C5: of a cancel and a complete racing on one running event, the one that
\* resumes second is answered with a ConflictError and writes nothing, so
\* that the event never mixes what the two wrote: a cancel that resumes on
\* the event once completed, or a complete (or stopIrrigation) that resumes
\* on it once cancelled.
C5_CancelCompleteRace ==
  [][\A q \in BagToSet(inflight) :
       ( /\ q.doc.status = RUNNING
         /\ \/ Cancel(q) /\ events[q.id].status = COMPLETED
            \/ /\ StopIrrigation(q) \/ \E w \in WaterUsedVals : Complete(q, w)
               /\ events[q.id].status = CANCELLED )
       => /\ response'.result \in Conflict
          /\ events' = events]_vars

\* C6: start() on a pending event makes it running and stamps actualStart;
\* on an event in any other status it is answered with an error and leaves
\* status and actualStart as they were.
C6_StartOnlyFromPending ==
  [][\A q \in BagToSet(inflight) :
       Start(q) =>
         IF events[q.id].status = PENDING
           THEN /\ response'.result = "ok"
                /\ events'[q.id].status = RUNNING
                /\ events'[q.id].actualStart = clock
           ELSE /\ response'.result # "ok"
                /\ events'[q.id].status = events[q.id].status
                /\ events'[q.id].actualStart = events[q.id].actualStart]_vars

\* C7: a create whose zones are not all zones of the farm is rejected and
\* leaves the store exactly as it was: no event is added and no stored event
\* changes.  The same holds of the create in startIrrigation and in
\* scheduleIrrigation.  Stated as: a step that is not a rejection leaving
\* the store as it was is no create with a zone outside the farm.
C7_InvalidZoneCreateRejected ==
  [][\/ response'.result # "ok" /\ events' = events
     \/ /\ \A farm \in Farms, zones \in ZoneLists, d \in Durations,
              planned \in PlannedVals, required \in BOOLEAN :
             ~(zones \subseteq farmZones[farm])
               => ~Create(farm, zones, d, planned, required)
        /\ \A farm \in Farms, zones \in ZoneLists, d \in Durations :
             ~(zones \subseteq farmZones[farm])
               => ~ScheduleIrrigation(farm, zones, d)
        /\ \A q \in BagToSet(inflight), d \in Durations :
             ~(q.zones \subseteq farmZones[q.farm])
               => ~StartIrrigationCreate(q, d)]_vars

\* C7 witness: a create was rejected for its zones while the store held an
\* event that had reached a terminal status.
C7_Witness ==
  /\ response.result = "InvalidZones"
  /\ \E i \in EventIds : events[i].status \in Terminal

\* C8: an event with both actualStart and actualEnd set has
\* actualEnd >= actualStart.
C8_EndNotBeforeStart ==
  \A i \in EventIds :
    (events[i].actualStart # Unset /\ events[i].actualEnd # Unset)
      => events[i].actualEnd >= events[i].actualStart

\* C10: an event never holds two unacknowledged alerts of the same type.
C10_OnePendingAlertPerType ==
  \A i \in EventIds : \A a, b \in 1..Len(events[i].alerts) :
    ( /\ a # b
      /\ events[i].alerts[a].type = events[i].alerts[b].type
      /\ ~events[i].alerts[a].acknowledged )
    => events[i].alerts[b].acknowledged

\* C11: acknowledging is idempotent: a handleAcknowledgeAlert on an alert that
\* is already acknowledged leaves the whole alerts state as it was, and any
\* handleAcknowledgeAlert changes no alert of another id and removes or adds
\* none.
C11_AcknowledgeIdempotent ==
  [][\A alertId \in AlertIds :
       HandleAcknowledgeAlert(alertId) =>
         /\ Len(alerts') = Len(alerts)
         /\ \A i \in 1..Len(alerts) :
              alerts[i].id # alertId => alerts'[i] = alerts[i]
         /\ (\A i \in 1..Len(alerts) :
               alerts[i].id = alertId => alerts[i].acknowledged)
            => alerts' = alerts]_vars

\* C11 witness: the same alert was acknowledged twice in a row.
C11_Witness ==
  /\ Len(clicks) >= 2
  /\ clicks[Len(clicks)] = clicks[Len(clicks) - 1]
  /\ \E i \in 1..Len(alerts) :
       alerts[i].id = clicks[Len(clicks)] /\ alerts[i].acknowledged

\* a level outside [0,100]
OutOfRange(level) == level # NoValue /\ (level < 0 \/ level > 100)

OutOfRangeBodies ==
  {body \in Bodies : OutOfRange(body.moistureLevel) \/ OutOfRange(body.batteryLevel)}

\* C12: a reading whose moisture or battery is outside [0,100] is rejected
\* with a validation error: no reading is persisted and no sensor's
\* statistics or lastSeen change.  Stated as: a step that is not such a
\* rejection is no create of a reading with a level outside [0,100].
C12_OutOfRangeRejected ==
  [][\/ /\ response'.result \in {"ValidationError", "VALIDATION_ERROR"}
        /\ readings' = readings
        /\ sensors' = sensors
        /\ accepted' = accepted
     \/ \A q \in BagToSet(ingesting), body \in OutOfRangeBodies, checked \in BOOLEAN :
          ~SensorReadingCreate(q, body, checked)]_vars

\* C12 witness: a reading was rejected for a level above its maximum by the
\* schema's validators alone, while its sensor already had a reading counted.
C12_Witness ==
  /\ response.result = "ValidationError"
  /\ response.kinds = {"max"}
  /\ \E id \in Sensors : sensors[id].totalReadings > 0
  /\ readings # <<>>

\* C13: the reading counter of every sensor equals the number of readings
\* accepted for it, whatever the interleaving of their handlers, and its
\* lastSeen and lastReading snapshot come from one and the same reading.
C13_StatisticsAtomic ==
  \A id \in Sensors :
    /\ sensors[id].totalReadings = accepted[id]
    /\ sensors[id].lastReading # NoReading
         => sensors[id].lastSeen = sensors[id].lastReading.timestamp

\* C14: convertMoistureToPercentage returns 100 when raw <= wetValue,
\* otherwise 0 when raw >= dryValue, otherwise the integer nearest to
\* (dryValue - raw) / (dryValue - wetValue) * 100 (halves rounded up); the
\* result is an integer in [0,100]; (595,595,239) gives 0, (239,595,239)
\* gives 100 and (417,595,239) gives 50.
C14_ToPercentage ==
  percentage # NoValue =>
    LET raw == calibration.rawValue
        dry == calibration.dryValue
        wet == calibration.wetValue
    IN /\ percentage \in 0..100
       /\ raw <= wet => percentage = 100
       /\ (raw > wet /\ raw >= dry) => percentage = 0
       /\ (raw > wet /\ raw < dry) =>
            /\ 2 * percentage * (dry - wet) <= 200 * (dry - raw) + (dry - wet)
            /\ 200 * (dry - raw) + (dry - wet) < 2 * (percentage + 1) * (dry - wet)
       /\ (raw = 595 /\ dry = 595 /\ wet = 239) => percentage = 0
       /\ (raw = 239 /\ dry = 595 /\ wet = 239) => percentage = 100
       /\ (raw = 417 /\ dry = 595 /\ wet = 239) => percentage = 50

\* C14 witness: a raw value strictly between the calibration values was
\* converted by the interpolation.
C14_Witness ==
  /\ percentage = 50
  /\ calibration = [rawValue |-> 417, dryValue |-> 595, wetValue |-> 239]

\* the call has returned
Recommended == recommendation # NoRecommendation

\* C15: when the first forecast entry announces more than 5 mm of rain the
\* recommended action is 'postpone' whatever the moisture readings are, and a
\* postponed recommendation carries no duration and no water amount.
C15_RainPostpones ==
  Recommended =>
    /\ (request.weatherData.available /\ request.weatherData.rainfall > RainThreshold)
         => recommendation.action = "postpone"
    /\ recommendation.action = "postpone"
         => /\ recommendation.duration = NoAmount
            /\ recommendation.waterAmount = NoAmount

\* critically dry readings and rain ahead: the irrigation is postponed
C15_Witness ==
  /\ Recommended
  /\ request.sensorData # <<>>
  /\ \A i \in 1..Len(request.sensorData) : request.sensorData[i].moistureLevel = 20
  /\ request.weatherData.rainfall = 10
  /\ recommendation.action = "postpone"
  /\ recommendation.duration = NoAmount

\* a / b >= tenths / 10 for a fraction with a denominator; false for NaN
AtLeastTenths(fraction, tenths) ==
  /\ fraction.den > 0
  /\ 10 * fraction.num >= tenths * fraction.den

\* the forecast leaves the moisture analysis alone: no rain over the
\* threshold ahead and no high humidity
CalmWeather(weatherData) ==
  \/ ~weatherData.available
  \/ /\ weatherData.rainfall <= RainThreshold
     /\ weatherData.humidity <= HighHumidity

AtMost(a, b) == a.den = b.den /\ a.den > 0 /\ a.num <= b.num

\* C17: for every non-empty list of readings the confidence of the
\* recommendation lies in [0, 1]; the humidity deduction applied to a base
\* of 0 does not make it negative.
C17_ConfidenceInRange ==
  (Recommended /\ request.sensorData # <<>>)
  => /\ recommendation.confidence.den > 0
     /\ 0 <= recommendation.confidence.num
     /\ recommendation.confidence.num <= recommendation.confidence.den

\* the list with the quality of reading i replaced
WithQuality(sensorData, i, quality) ==
  [sensorData EXCEPT ![i].quality = quality]

\* C18: with everything else equal, giving a reading the quality 'poor'
\* instead of 'good' never yields a greater confidence.
C18_QualityMonotonic ==
  Recommended =>
    \A i \in 1..Len(request.sensorData) :
      request.sensorData[i].quality = "good"
      => AtMost(GenerateIrrigationRecommendation(
                  WithQuality(request.sensorData, i, "poor"),
                  request.weatherData, request.targetMoisture).confidence,
                recommendation.confidence)

\* a forecast that changes nothing: no rain, moderate humidity and temperature
NeutralWeather == [available |-> TRUE, humidity |-> 50, temperature |-> 30,
                   rainfall |-> 0]

MoistureReasons ==
  {"Critical moisture level", "Low moisture level", "Moderate moisture level"}

\* C19: when no forecast could be fetched the recommendation is still
\* produced from the readings, with a confidence strictly under the one a
\* neutral forecast gives (where that one is positive) and with a line that
\* tells the forecast was missing.
C19_ForecastFallback ==
  (Recommended /\ request.sensorData # <<>> /\ ~request.weatherData.available)
  => LET neutral == GenerateIrrigationRecommendation(
                      request.sensorData, NeutralWeather, request.targetMoisture)
     IN  /\ recommendation.action = neutral.action
         /\ neutral.confidence.num > 0
              => recommendation.confidence.num < neutral.confidence.num
         /\ \E i \in 1..Len(recommendation.reasoning) :
              recommendation.reasoning[i] \notin MoistureReasons

RainOverride(weatherData) ==
  weatherData.available /\ weatherData.rainfall > RainThreshold

\* C21: for a non-empty list of readings with mean m = sum / n and target t
\* and no rain override, the action is 'irrigate_now' (base confidence 0.9)
\* iff m < 0.4 t, 'irrigate_soon' (0.7) iff 0.4 t <= m < 0.6 t,
\* 'schedule_irrigation' (0.5) iff 0.6 t <= m < 0.8 t and 'none' (0)
\* iff m >= 0.8 t.
C21_BaseAction ==
  (Recommended /\ request.sensorData # <<>> /\ ~RainOverride(request.weatherData))
  => LET n == Len(request.sensorData)
         m10 == 10 * SumMoisture(request.sensorData)
         t == TargetMoisture(request.targetMoisture)
         base == Moisture(request.sensorData, t)
         Is(action, tenths) ==
           recommendation.action = action /\ base.action = action
             /\ base.tenths = tenths
     IN  /\ Is("irrigate_now", 9) <=> m10 < 4 * t * n
         /\ Is("irrigate_soon", 7) <=> (4 * t * n <= m10 /\ m10 < 6 * t * n)
         /\ Is("schedule_irrigation", 5) <=> (6 * t * n <= m10 /\ m10 < 8 * t * n)
         /\ Is("none", 0) <=> m10 >= 8 * t * n

\* a mean of exactly 0.4 of the target is not critical: irrigate_soon
C21_Witness ==
  /\ Recommended
  /\ request.sensorData # <<>>
  /\ 10 * SumMoisture(request.sensorData)
       = 4 * TargetMoisture(request.targetMoisture) * Len(request.sensorData)
  /\ ~RainOverride(request.weatherData)
  /\ recommendation.action = "irrigate_soon"

\* Math.round(a / b) for b > 0 and any integer a
RoundDiv(a, b) == (2 * a + b) \div (2 * b)

\* clamp(round((target - mean) x 0.5), 10, 60)
ClampedMinutes(sensorData, target) ==
  LET n == Len(sensorData)
  IN  Min(MaxDuration,
          Max(MinDuration, RoundDiv(target * n - SumMoisture(sensorData), 2 * n)))

\* C22: when the action is irrigate_now, irrigate_soon or schedule_irrigation
\* the duration is the integer clamp(round((target - mean) x 0.5), 10, 60)
\* and the water amount is the duration times the litres per minute; for
\* 'none' and 'postpone' neither is set.
C22_IrrigationParameters ==
  Recommended =>
    LET t == TargetMoisture(request.targetMoisture)
        minutes == ClampedMinutes(request.sensorData, t)
        d == recommendation.duration
        w == recommendation.waterAmount
    IN  IF recommendation.action
             \in {"irrigate_now", "irrigate_soon", "schedule_irrigation"}
        THEN /\ d.den > 0 /\ d.num = minutes * d.den
             /\ w.den > 0 /\ w.num = minutes * LitersPerMinute * w.den
        ELSE d = NoAmount /\ w = NoAmount

\* the hooks have run
Saved == saved # NotSaved

\* the reading carries an alert of that type and severity
Carries(type, severity) ==
  \E i \in 1..Len(saved.alerts) : saved.alerts[i] = Alert(type, severity)

CarriesType(type) ==
  \E i \in 1..Len(saved.alerts) : saved.alerts[i].type = type

\* the score of the claim: a value that is present, 0 included, is not missing
ClaimedScore(r) ==
  100
  - (IF r.signalStrength # Absent /\ r.signalStrength < -80 THEN 20
     ELSE IF r.signalStrength # Absent /\ r.signalStrength < -70 THEN 10 ELSE 0)
  - (IF r.batteryLevel < 20 THEN 15 ELSE IF r.batteryLevel < 40 THEN 5 ELSE 0)
  - (IF r.temperature = Absent THEN 5 ELSE 0)
  - (IF r.humidity = Absent THEN 5 ELSE 0)

\* C25: the stored quality of an accepted reading is the band of the score
\* 100 - 20 if signal < -80 (else - 10 if signal < -70) - 15 if battery < 20
\* (else - 5 if battery < 40) - 5 for each of temperature and humidity that
\* is absent, a present 0 not being absent: excellent iff score >= 90, good
\* iff 75 <= score < 90, fair iff 60 <= score < 75, poor iff score < 60.
C25_QualityBand ==
  Saved =>
    LET score == ClaimedScore(candidate)
    IN  /\ saved.quality = "excellent" <=> score >= 90
        /\ saved.quality = "good" <=> (75 <= score /\ score < 90)
        /\ saved.quality = "fair" <=> (60 <= score /\ score < 75)
        /\ saved.quality = "poor" <=> score < 60

\* C26 as stated: every accepted reading at or under the device's low
\* moisture threshold carries a critical low_moisture alert, every one at or
\* over the high threshold a warning high_moisture alert, and none strictly
\* between the two carries either.
C26_MoistureAlerts ==
  Saved =>
    LET m == candidate.moistureLevel
        low == candidate.sensor.low
        high == candidate.sensor.high
    IN  /\ m <= low => Carries("low_moisture", "critical")
        /\ m >= high => Carries("high_moisture", "warning")
        /\ (low < m /\ m < high)
             => ~CarriesType("low_moisture") /\ ~CarriesType("high_moisture")

\* C26 amended: on a device whose moisture alerts are enabled a reading at
\* or under the low threshold carries a critical low_moisture alert and no
\* high_moisture alert, a reading over the low and at or over the high
\* threshold carries a warning high_moisture alert and no low_moisture alert,
\* and any other reading carries neither; with the alerts disabled no
\* reading carries either.
C26_MoistureAlertsEnabled ==
  Saved =>
    LET m == candidate.moistureLevel
        low == candidate.sensor.low
        high == candidate.sensor.high
        on == candidate.sensor.moistureEnabled
    IN  /\ Carries("low_moisture", "critical") <=> (on /\ m <= low)
        /\ Carries("high_moisture", "warning") <=> (on /\ m > low /\ m >= high)
        /\ CarriesType("low_moisture") => Carries("low_moisture", "critical")
        /\ CarriesType("high_moisture") => Carries("high_moisture", "warning")

\* a reading exactly at a low threshold that is also the high threshold:
\* the critical alert alone
C26_Witness ==
  /\ Saved
  /\ candidate.sensor.moistureEnabled
  /\ candidate.moistureLevel = candidate.sensor.low
  /\ candidate.moistureLevel = candidate.sensor.high
  /\ Carries("low_moisture", "critical")
  /\ ~CarriesType("high_moisture")

\* C27: on a device whose battery alert is enabled, every accepted reading
\* with battery <= 10 carries a critical low_battery alert and every one
\* with 10 < battery <= threshold a warning low_battery alert, whatever the
\* threshold in [0, 100], thresholds under 10 included.
C27_BatteryAlerts ==
  (Saved /\ candidate.sensor.batteryEnabled) =>
    LET b == candidate.batteryLevel
    IN  /\ b <= 10 => Carries("low_battery", "critical")
        /\ (10 < b /\ b <= candidate.sensor.threshold)
             => Carries("low_battery", "warning")

\* the positions in the collection of the readings inserted for a sensor
ReadingsOf(id) == {i \in 1..Len(readings) : readings[i].sensorId = id}

\* the sensor shows the reading inserted last for it
ShowsLast(id) ==
  LET last == readings[CHOOSE i \in ReadingsOf(id) :
                         \A j \in ReadingsOf(id) : j <= i]
  IN  /\ sensors[id].lastReading =
           [moistureLevel |-> last.moistureLevel,
            batteryLevel |-> last.batteryLevel, timestamp |-> last.timestamp]
      /\ sensors[id].lastSeen = last.timestamp

\* every reading accepted for the sensor went through addSensorReading, and
\* none is still being processed
Ingested(id) ==
  /\ ingesting = EmptyBag
  /\ ReadingsOf(id) # {}
  /\ accepted[id] = Cardinality(ReadingsOf(id))

\* C28: once the readings of a device have been ingested, with their
\* processing overlapping or not, its lastReading and lastSeen are those of
\* the reading that arrived last, and no step moves lastSeen backwards.
C28_ArrivalOrder ==
  [][ /\ \A id \in Sensors : sensors'[id].lastSeen >= sensors[id].lastSeen
      /\ \A id \in Sensors : Ingested(id)' => ShowsLast(id)' ]_vars

\* C23: after complete(waterUsed) succeeds on an event whose planned amount
\* is positive, results.efficiency is round(waterUsed / planned x 100) for
\* every waterUsed >= 0, 0 and amounts over the planned one included; an
\* event that was never completed has no efficiency.
C23_Efficiency ==
  [][ /\ \A i \in 1..Len(events') :
           events'[i].actualEnd = Unset => events'[i].efficiency = NoValue
      /\ \A q \in BagToSet(inflight), waterUsed \in WaterUsedVals :
           ( /\ Complete(q, waterUsed)
             /\ response'.result = "ok"
             /\ events[q.id].planned > 0 )
           => events'[q.id].efficiency
                = RoundPct(waterUsed, events[q.id].planned) ]_vars

\* C24: a create with the zones of the farm and no planned amount succeeds
\* and stores duration x flow rate x number of zones as the planned amount;
\* a planned amount that is supplied is stored as it is.
C24_PlannedVolume ==
  [][ \A farm \in Farms, zones \in ZoneLists, duration \in Durations,
         planned \in PlannedVals :
        ( /\ Create(farm, zones, duration, planned, TRUE)
          /\ zones \subseteq farmZones[farm] )
        => /\ response'.result = "ok"
           /\ Len(events') = Len(events) + 1
           /\ events'[Len(events')].planned =
                IF planned = NoValue
                  THEN duration * DefaultFlowRate * Cardinality(zones)
                  ELSE planned ]_vars

\* C29: every event with status 'running' has schedule.actualStartTime set,
\* and every event with status 'completed' has actualStartTime and
\* actualEndTime set.
C29_TimestampsSet ==
  \A i \in EventIds :
    /\ events[i].status = RUNNING => events[i].actualStart # Unset
    /\ events[i].status = COMPLETED
         => events[i].actualStart # Unset /\ events[i].actualEnd # Unset

\* C30: whatever zones were added to or removed from the farm since an event
\* was created, a cancel, or a complete with an amount the validators accept,
\* on that event while it is 'running' succeeds and makes it terminal.
C30_RunningCanFinish ==
  [][ \A q \in BagToSet(inflight) :
        events[q.id].status = RUNNING
        => /\ Cancel(q)
                => /\ response'.result = "ok"
                   /\ events'[q.id].status = CANCELLED
           /\ \A waterUsed \in WaterUsedVals :
                (waterUsed <= events[q.id].planned /\ Complete(q, waterUsed))
                => /\ response'.result = "ok"
                   /\ events'[q.id].status = COMPLETED ]_vars

====
